---- MODULE Spec2Model ----
(***************************************************************************)
(* Model of tracing-otel-http: the HTTP span factory (MakeServerSpan), the *)
(* HTTP response recorder (ServerOnResponse) and the RPC middleware        *)
(* (TelemetryMiddleware).                                                  *)
(*                                                                         *)
(* Three specifications share the variables:                               *)
(*   Spec      the RPC flow: poll_ready / call / polls of the returned     *)
(*             future on a pool of workers / cancellation;                 *)
(*   HttpSpec  the HTTP flow: make_span followed by on_response;           *)
(*   HostSpec  make_span alone, over every Host header text up to          *)
(*             MaxHostLen characters.                                      *)
(***************************************************************************)
EXTENDS Integers, Sequences, FiniteSets, TLC

VARIABLES
    \* ---- HTTP flow
    request,        \* the inbound http::Request: uri authority and headers
    config,         \* MakeServerSpan { propagate_context }
    propagator,     \* the globally registered text-map propagator
    httpSpan,       \* the span make_span returned (NoSpan before)
    httpPc,         \* "start" -> "spanned" -> "responded"
    extractCalls,   \* how often the propagator's extract was consulted
    response,       \* status code handed to on_response (0 before)
    events,         \* the tracing events on_response emitted
    \* ---- RPC flow
    stored,         \* TelemetryMiddleware.inner: id of the stored handle
    handles,        \* handle id -> state of that downstream handle
    calls,          \* call id -> state of the future call() returned
    spans,          \* sequence of the spans create_server_span made
    workers,        \* worker -> stack of entered spans (thread-local)
    lastPoll        \* what the latest poll_ready saw and returned

httpVars == <<request, config, propagator, httpSpan, httpPc, extractCalls, response, events>>
rpcVars  == <<stored, handles, calls, spans, workers, lastPoll>>
vars     == <<request, config, propagator, httpSpan, httpPc, extractCalls, response, events,
              stored, handles, calls, spans, workers, lastPoll>>

----------------------------------------------------------------------------
(* Bounds of the model *)
\* The host of the RPC flow keeps the tower Service contract (call() after a
\* poll_ready that returned Ready(Ok)); the worker threads have no span
\* entered of their own; the text-map propagator is an external collaborator
\* and is one of Propagators.

MaxHostLen == 6    \* longest Host header text enumerated by HostSpec
MaxCalls   == 2    \* RPC calls the host issues
NumWorkers == 2    \* worker threads polling the futures

----------------------------------------------------------------------------
(* Values *)

None    == [some |-> FALSE]
Some(x) == [some |-> TRUE, v |-> x]

\* A recorded field value: what tracing stores for a field.
\*   "empty" : tracing::field::Empty, nothing recorded
\*   "str"   : a &str value
\*   "debug" : tracing::field::debug(x), the Debug text of x
\*   "u64"   : an unsigned integer value
\*   "i64"   : a signed integer value
\*   "opaque": a value derived from parts of the request not modelled here
\*   "text"  : a &str value held as a sequence of characters
Empty       == [ty |-> "empty",  s |-> "", n |-> 0, t |-> <<>>]
Str(x)      == [ty |-> "str",    s |-> x,  n |-> 0, t |-> <<>>]
DebugStr(x) == [ty |-> "debug",  s |-> x,  n |-> 0, t |-> <<>>]
DebugNum(k) == [ty |-> "debug",  s |-> "", n |-> k, t |-> <<>>]
U64(k)      == [ty |-> "u64",    s |-> "", n |-> k, t |-> <<>>]
I64(k)      == [ty |-> "i64",    s |-> "", n |-> k, t |-> <<>>]
Text(x)     == [ty |-> "text",   s |-> "", n |-> 0, t |-> x]
Opaque      == [ty |-> "opaque", s |-> "", n |-> 0, t |-> <<>>]

\* Characters are one-character strings, texts are sequences of them.
Colon    == ":"
Plus     == "+"
NonAscii == "~"    \* stands for a byte outside visible ASCII (obs-text)
Digits   == {"0", "1", "2", "3", "4", "5", "6", "7", "8", "9"}
DigitVal == [c \in Digits |->
               CASE c = "0" -> 0 [] c = "1" -> 1 [] c = "2" -> 2 [] c = "3" -> 3
                 [] c = "4" -> 4 [] c = "5" -> 5 [] c = "6" -> 6 [] c = "7" -> 7
                 [] c = "8" -> 8 [] c = "9" -> 9]

Unknown   == <<"u", "n", "k", "n", "o", "w", "n">>
Unknown80 == <<"u", "n", "k", "n", "o", "w", "n", ":", "8", "0">>
Text80    == <<"8", "0">>

----------------------------------------------------------------------------
(* Spans.  A span holds the fields declared at creation; record() on a    *)
(* name that was not declared is a no-op (tracing looks the name up in    *)
(* the span's metadata and drops the value when it is not there).         *)

NoContext == "none"
NoSpan    == [fields |-> <<>>, writes |-> <<>>, parent |-> NoContext,
              owner |-> 0, refs |-> 0, writers |-> {}]

\* Span::record(name, value), performed by call `who` (0 in the HTTP flow)
Record(span, name, value, who) ==
    IF name \in DOMAIN span.fields
    THEN [span EXCEPT !.fields[name] = value,
                      !.writes[name] = @ + 1,
                      !.writers = @ \cup {who}]
    ELSE span

\* OpenTelemetrySpanExt::set_parent(ctx)
SetParent(span, ctx) == [span EXCEPT !.parent = ctx]

----------------------------------------------------------------------------
(* Context propagation *)

\* HeaderValue::to_str(): fails on a byte outside visible ASCII
HeaderToStr(value) ==
    IF \E i \in 1..Len(value) : value[i] = NonAscii THEN None ELSE Some(value)

\* Extractor::get: self.0.get(key).and_then(|v| v.to_str().ok())
ExtractorGet(headers, key) ==
    IF key \in DOMAIN headers /\ headers[key].some
    THEN HeaderToStr(headers[key].v)
    ELSE None

\* Extractor::keys: the names of the headers present
ExtractorKeys(headers) == {k \in DOMAIN headers : headers[k].some}

\* The propagation wire format is the propagator's business: a header text is
\* either the encoding of one remote context or it is not.
ParseTraceparent(text) ==
    CASE text = <<"a">> -> "trace-a"
      [] text = <<"b">> -> "trace-b"
      [] OTHER          -> NoContext

Propagators == {"noop", "tracecontext"}

\* PropagationContext::extract: the global propagator's extract over the carrier
Extract(prop, headers) ==
    IF prop = "tracecontext"
    THEN LET v == ExtractorGet(headers, "traceparent")
         IN  IF v.some THEN ParseTraceparent(v.v) ELSE NoContext
    ELSE NoContext

----------------------------------------------------------------------------
(* MakeServerSpan::make_span *)

U16Max == 65535

UnwrapOr(opt, default) == IF opt.some THEN opt.v ELSE default

\* str::split(sep): the segments between the separators, in order
RECURSIVE Split(_, _)
Split(s, sep) ==
    IF \A i \in 1..Len(s) : s[i] # sep
    THEN <<s>>
    ELSE LET k == CHOOSE i \in 1..Len(s) :
                      s[i] = sep /\ \A j \in 1..(i - 1) : s[j] # sep
         IN  <<SubSeq(s, 1, k - 1)>> \o Split(SubSeq(s, k + 1, Len(s)), sep)

\* Iterator::nth(n), zero-based
Nth(segs, n) == IF n < Len(segs) THEN Some(segs[n + 1]) ELSE None

\* The digit loop of u16::from_str: checked_mul(10) then checked_add(digit)
RECURSIVE ParseDigits(_, _)
ParseDigits(t, acc) ==
    IF t = <<>> THEN Some(acc)
    ELSE IF Head(t) \notin Digits THEN None
    ELSE IF acc * 10 > U16Max THEN None
    ELSE IF acc * 10 + DigitVal[Head(t)] > U16Max THEN None
    ELSE ParseDigits(Tail(t), acc * 10 + DigitVal[Head(t)])

\* str::parse::<u16>(): empty and a lone sign are errors, a leading '+' is
\* accepted, anything but decimal digits or a value over u16::MAX is an error
ParseU16(t) ==
    IF t = <<>> THEN None
    ELSE IF Head(t) = Plus
         THEN (IF Len(t) = 1 THEN None ELSE ParseDigits(Tail(t), 0))
         ELSE ParseDigits(t, 0)

\* Port of the Host header branch: split(':').nth(1).unwrap_or("80").parse().unwrap_or(80)
\* (variant: the unparseable port defaults to 0 instead of 80)
HeaderPortDefaultZero(host) ==
    UnwrapOr(ParseU16(UnwrapOr(Nth(Split(host, Colon), 1), Text80)), 0)

HeaderPort(host) ==
    UnwrapOr(ParseU16(UnwrapOr(Nth(Split(host, Colon), 1), Text80)), 80)

\* The (hostname, port) pair of make_span
HostPort(req) ==
    IF req.uriHost.some
    THEN <<req.uriHost.v, UnwrapOr(req.uriPort, 80)>>
    ELSE IF req.headers["host"].some
    THEN LET host     == UnwrapOr(HeaderToStr(req.headers["host"].v), Unknown80)
             hostname == UnwrapOr(Nth(Split(host, Colon), 0), Unknown)
         IN  <<hostname, HeaderPort(host)>>
    ELSE <<Unknown, 0>>

\* The fields the make_span! macro declares, with their values at creation
MakeSpanFields(hostname, port) ==
    ("component" :> Opaque)
    @@ ("method" :> Opaque)
    @@ ("uri" :> Opaque)
    @@ ("version" :> Opaque)
    @@ ("headers" :> Empty)
    @@ ("otel.kind" :> Str("server"))
    @@ ("otel.status_code" :> Empty)
    @@ ("http.host" :> Text(hostname))
    @@ ("http.request.method" :> Opaque)
    @@ ("http.route" :> Opaque)
    @@ ("http.path_group" :> Empty)
    @@ ("http.response.status_code" :> Empty)
    @@ ("network.protocol.name" :> Opaque)
    @@ ("network.protocol.version" :> Opaque)
    @@ ("network.transport" :> Str("tcp"))
    @@ ("server.addresss" :> Text(hostname))
    @@ ("server.port" :> U64(port))
    @@ ("telemetry.sdk.language" :> Str("rust"))
    @@ ("url.scheme" :> Opaque)
    @@ ("url.path" :> Opaque)
    @@ ("url.query" :> Opaque)
    @@ ("user_agent.original" :> Opaque)

\* A fresh span with the given declared fields, held by one handle
NewSpan(fields, who) ==
    [fields  |-> fields,
     writes  |-> [f \in DOMAIN fields |-> 0],
     parent  |-> NoContext,
     owner   |-> who,
     refs    |-> 1,
     writers |-> {}]

\* if self.propagate_context { span.set_parent(ctx.extract()) }
\* (variant: the flag is ignored, as in the RPC flow)
PropagateUnconditionally(span, cfg, prop, headers) ==
    SetParent(span, Extract(prop, headers))

Propagate(span, cfg, prop, headers) ==
    IF cfg.propagate_context THEN SetParent(span, Extract(prop, headers)) ELSE span

ExtractCount(cfg) == IF cfg.propagate_context THEN 1 ELSE 0

MakeSpan ==
    /\ httpPc = "start"
    /\ LET hp   == HostPort(request)
           span == NewSpan(MakeSpanFields(hp[1], hp[2]), 0)
       IN  httpSpan' = Propagate(span, config, propagator, request.headers)
    /\ extractCalls' = extractCalls + ExtractCount(config)
    /\ httpPc' = "spanned"
    /\ UNCHANGED <<request, config, propagator, response, events>>
    /\ UNCHANGED rpcVars

----------------------------------------------------------------------------
(* ServerOnResponse::on_response *)

StatusCodes == {200, 404, 499, 500, 503, 599, 600}

\* StatusCode::is_server_error
IsServerError(status) == 500 <= status /\ status < 600

\* impl From<&Response<B>> for OpenTelemetryStatusCode
OpenTelemetryStatusCodeFrom(status) ==
    IF IsServerError(status) THEN "Error" ELSE "Ok"

\* impl Debug for OpenTelemetryStatusCode
OpenTelemetryStatusCodeDebug(code) == IF code = "Ok" THEN "OK" ELSE "ERROR"

\* The three span.record calls of on_response
OnResponseRecord(span, status) ==
    LET s1 == Record(span, "otel.status_code",
                     DebugStr(OpenTelemetryStatusCodeDebug(OpenTelemetryStatusCodeFrom(status))), 0)
        s2 == Record(s1, "status", I64(status), 0)
        s3 == Record(s2, "http.status_code", U64(status), 0)
    IN  s3

OnResponse(status) ==
    /\ httpPc = "spanned"
    /\ response' = status
    /\ httpSpan' = OnResponseRecord(httpSpan, status)
    /\ events' = Append(events, [level |-> "INFO", message |-> "finished processing request"])
    /\ httpPc' = "responded"
    /\ UNCHANGED <<request, config, propagator, extractCalls>>
    /\ UNCHANGED rpcVars


----------------------------------------------------------------------------
(* Requests of the HTTP flow *)

HostChars == {"h", Colon, "0", "7", Plus, NonAscii}

\* Every text over HostChars of at most n characters
Texts(n) == UNION {[1..k -> HostChars] : k \in 0..n}

NoHeaders == [host |-> None, traceparent |-> None]

\* HostSpec: no uri authority and every Host header text, plus the requests
\* with an authority (with and without a port) beside a Host header
HostRequests ==
    {[uriHost |-> None, uriPort |-> None, headers |-> [NoHeaders EXCEPT !.host = Some(t)]] :
        t \in Texts(MaxHostLen)}
    \cup {[uriHost |-> None, uriPort |-> None, headers |-> NoHeaders]}
    \cup {[uriHost |-> Some(<<"a">>), uriPort |-> p, headers |-> [NoHeaders EXCEPT !.host = h]] :
            p \in {None, Some(0), Some(8443)},
            h \in {None, Some(<<"h">>), Some(<<"h", ":", "7">>), Some(<<NonAscii>>)}}

\* HttpSpec: a few hosts, and every shape of the traceparent header
HttpRequests ==
    {[uriHost |-> u[1], uriPort |-> u[2], headers |-> [host |-> h, traceparent |-> tp]] :
        u  \in {<<None, None>>, <<Some(<<"a">>), Some(8443)>>},
        h  \in {None, Some(<<"h", ":", "7">>)},
        tp \in {None, Some(<<"a">>), Some(<<"b">>), Some(<<"x">>), Some(<<NonAscii>>)}}

Configs == {[propagate_context |-> b] : b \in BOOLEAN}

\* MakeServerSpan::new(): propagate_context defaults to true
DefaultConfig == [propagate_context |-> TRUE]

HttpIdle ==
    /\ httpSpan = NoSpan
    /\ httpPc = "start"
    /\ extractCalls = 0
    /\ response = 0
    /\ events = <<>>

----------------------------------------------------------------------------
(* RPC flow: TelemetryMiddleware *)

Calls   == 1..MaxCalls
Workers == 1..NumWorkers
NoWorker == 0

\* Result<Response, Error> of the downstream future; "none" while unresolved.
\* Ok carries the response's status code, Err an opaque error value.
NoResult == [kind |-> "none", v |-> 0]
Ok(st)   == [kind |-> "ok",   v |-> st]
Err(e)   == [kind |-> "err",  v |-> e]
Results  == {Ok(200), Ok(503), Err(1)}

PollResults == {"Pending", "ReadyOk", "ReadyErr"}

RpcHeaders == {[NoHeaders EXCEPT !.traceparent = Some(<<"a">>)]}

\* A downstream handle: the latest poll_ready result driven on it ("never"
\* for a handle nobody polled), how often call() was invoked on it, and the
\* handle it was cloned from (0 for the one the layer was built with).
NewHandle(from) == [polled |-> "never", invoked |-> 0, from |-> from]

NoCall == [pc |-> "idle", handle |-> 0, storedBefore |-> 0, clone |-> 0,
           headers |-> NoHeaders, span |-> 0, invoked |-> 0,
           inner |-> NoResult, result |-> NoResult, worker |-> NoWorker]

IdleWorker == [running |-> 0, entered |-> <<>>]

\* poll_ready: self.inner.poll_ready(cx)
\* (variant: a Pending of the downstream handle is reported as Ready)
PollReadyHidesPending(inner) == IF inner = "Pending" THEN "ReadyOk" ELSE inner

PollReadyResult(inner) == inner

PollReady(r) ==
    /\ handles' = [handles EXCEPT ![stored].polled = r]
    /\ lastPoll' = [handle |-> stored, inner |-> r, outer |-> PollReadyResult(r)]
    /\ UNCHANGED <<stored, calls, spans, workers>>
    /\ UNCHANGED httpVars

\* let clone = self.inner.clone();
\* let mut inner = std::mem::replace(&mut self.inner, clone);
StoredAfterCall(old, clone) == clone

\* (variant: the request is sent to the fresh clone)
TakenClone(old, clone) == clone

TakenInner(old, clone) == old

\* call(): synchronous part, up to returning the boxed future.  The host
\* keeps the Service contract: call() follows a poll_ready that returned
\* Ready(Ok) on the stored handle.
Call(i, hdrs) ==
    /\ calls[i].pc = "idle"
    /\ handles[stored].polled = "ReadyOk"
    /\ \A j \in Calls : j < i => calls[j].pc # "idle"
    /\ LET old   == stored
           clone == Len(handles) + 1
       IN  /\ handles' = Append(handles, NewHandle(old))
           /\ stored' = StoredAfterCall(old, clone)
           /\ calls' = [calls EXCEPT ![i] =
                          [@ EXCEPT !.pc = "created",
                                    !.handle = TakenInner(old, clone),
                                    !.storedBefore = old,
                                    !.clone = clone,
                                    !.headers = hdrs]]
    /\ UNCHANGED <<spans, workers, lastPoll>>
    /\ UNCHANGED httpVars

\* The fields create_server_span declares
TonicSpanFields ==
    ("otel.kind" :> Str("server"))
    @@ ("otel.status_code" :> Empty)
    @@ ("http.response.status_code" :> Empty)
    @@ ("foo" :> Empty)

\* create_server_span(headers): the span, parented to the extracted context
CreateServerSpan(headers, who) ==
    SetParent(NewSpan(TonicSpanFields, who), Extract(propagator, headers))

\* Instrumented::poll enters the span around every poll of the inner future
\* (variant: the span is entered on the first poll only)
EnterOnFirstPollOnly(entered, span, first) ==
    IF first THEN Append(entered, span) ELSE entered

Enter(entered, span, first) == Append(entered, span)

\* ... and exits it when the poll returns
Exit(entered) == IF entered = <<>> THEN entered ELSE SubSeq(entered, 1, Len(entered) - 1)

\* The span that is current on a worker (0: none)
Current(w) == IF workers[w].entered = <<>> THEN 0
              ELSE workers[w].entered[Len(workers[w].entered)]

\* First poll of the future: the span is created, inner.call(req) is invoked
\* on the handle the future owns, the Instrumented wrapper takes a clone of
\* the span and enters it to poll the downstream future.
FirstPoll(i, w) ==
    /\ calls[i].pc = "created"
    /\ workers[w].running = 0
    /\ LET sid == Len(spans) + 1
           h   == calls[i].handle
       IN  /\ spans' = Append(spans, [CreateServerSpan(calls[i].headers, i) EXCEPT !.refs = 2])
           /\ handles' = [handles EXCEPT ![h].invoked = @ + 1]
           /\ calls' = [calls EXCEPT ![i] =
                          [@ EXCEPT !.pc = "polling", !.span = sid,
                                    !.invoked = @ + 1, !.worker = w]]
           /\ workers' = [workers EXCEPT ![w] =
                          [running |-> i, entered |-> Enter(@.entered, sid, TRUE)]]
    /\ UNCHANGED <<stored, lastPoll>>
    /\ UNCHANGED httpVars

\* A later poll, on whichever worker the host resumes the call
Resume(i, w) ==
    /\ calls[i].pc = "suspended"
    /\ workers[w].running = 0
    /\ calls' = [calls EXCEPT ![i] = [@ EXCEPT !.pc = "polling", !.worker = w]]
    /\ workers' = [workers EXCEPT ![w] =
                     [running |-> i, entered |-> Enter(@.entered, calls[i].span, FALSE)]]
    /\ UNCHANGED <<stored, handles, spans, lastPoll>>
    /\ UNCHANGED httpVars

\* The downstream future returns Pending: the span is exited, the call suspends
InnerPending(i) ==
    /\ calls[i].pc = "polling"
    /\ LET w == calls[i].worker
       IN  workers' = [workers EXCEPT ![w] = [running |-> 0, entered |-> Exit(@.entered)]]
    /\ calls' = [calls EXCEPT ![i] = [@ EXCEPT !.pc = "suspended", !.worker = NoWorker]]
    /\ UNCHANGED <<stored, handles, spans, lastPoll>>
    /\ UNCHANGED httpVars

\* The downstream future returns Ready(res): the span is exited and the
\* finished Instrumented wrapper, with its clone of the span, is dropped
InnerReady(i, res) ==
    /\ calls[i].pc = "polling"
    /\ LET w == calls[i].worker
       IN  workers' = [workers EXCEPT ![w] = [@ EXCEPT !.entered = Exit(@)]]
    /\ spans' = [spans EXCEPT ![calls[i].span].refs = @ - 1]
    /\ calls' = [calls EXCEPT ![i] = [@ EXCEPT !.pc = "resolved", !.inner = res]]
    /\ UNCHANGED <<stored, handles, lastPoll>>
    /\ UNCHANGED httpVars

\* The two match arms: what is recorded on the span
\* (variant: the Err arm records a status code too)
RecordOutcomeStatusInBothArms(span, res, who) ==
    Record(Record(span, "otel.status_code",
                  Str(IF res.kind = "ok" THEN "ok" ELSE "error"), who),
           "http.response.status_code", DebugNum(res.v), who)

RecordOutcome(span, res, who) ==
    IF res.kind = "ok"
    THEN Record(Record(span, "otel.status_code", Str("ok"), who),
                "http.response.status_code", DebugNum(res.v), who)
    ELSE Record(span, "otel.status_code", Str("error"), who)

\* The two match arms: what the future resolves to
\* (variant: an error is turned into a response)
ReturnedErrSwallowed(res) == IF res.kind = "err" THEN Ok(500) ELSE res

Returned(res) == res

\* Dropping a handle of a span: the span closes with its last handle
\* (variant: one handle of the span outlives the future)
DropSpanKeepsOneHandle(span, n) == [span EXCEPT !.refs = IF @ > n THEN @ - n ELSE 1]

DropSpan(span, n) == [span EXCEPT !.refs = IF @ >= n THEN @ - n ELSE 0]

Closed(span) == span.refs = 0

\* The match on the awaited result, then the end of the async block, where
\* the future's own handle of the span is dropped
Complete(i) ==
    /\ calls[i].pc = "resolved"
    /\ LET sid == calls[i].span
       IN  spans' = [spans EXCEPT ![sid] = DropSpan(RecordOutcome(@, calls[i].inner, i), 1)]
    /\ calls' = [calls EXCEPT ![i] =
                   [@ EXCEPT !.pc = "done", !.result = Returned(calls[i].inner), !.worker = NoWorker]]
    /\ workers' = [workers EXCEPT ![calls[i].worker] = [@ EXCEPT !.running = 0]]
    /\ UNCHANGED <<stored, handles, lastPoll>>
    /\ UNCHANGED httpVars

\* The host drops the future between polls: everything the future holds is
\* dropped with it, the span handle and the Instrumented wrapper's clone
Cancel(i) ==
    /\ calls[i].pc \in {"created", "suspended"}
    /\ spans' = IF calls[i].span = 0 THEN spans
                ELSE [spans EXCEPT ![calls[i].span] = DropSpan(@, 2)]
    /\ calls' = [calls EXCEPT ![i] = [@ EXCEPT !.pc = "dropped"]]
    /\ UNCHANGED <<stored, handles, workers, lastPoll>>
    /\ UNCHANGED httpVars

RpcIdle ==
    /\ stored = 1
    /\ handles = <<NewHandle(0)>>
    /\ calls = [i \in Calls |-> NoCall]
    /\ spans = <<>>
    /\ workers = [w \in Workers |-> IdleWorker]
    /\ lastPoll = [handle |-> 0, inner |-> "Pending", outer |-> "Pending"]

----------------------------------------------------------------------------
(* Specifications *)

\* The RPC flow
Init ==
    /\ request = [uriHost |-> None, uriPort |-> None, headers |-> NoHeaders]
    /\ config = DefaultConfig
    /\ propagator \in Propagators
    /\ HttpIdle
    /\ RpcIdle

Next ==
    \/ \E r \in PollResults : PollReady(r)
    \/ \E i \in Calls, hdrs \in RpcHeaders : Call(i, hdrs)
    \/ \E i \in Calls, w \in Workers : FirstPoll(i, w)
    \/ \E i \in Calls, w \in Workers : Resume(i, w)
    \/ \E i \in Calls : InnerPending(i)
    \/ \E i \in Calls, res \in Results : InnerReady(i, res)
    \/ \E i \in Calls : Complete(i)
    \/ \E i \in Calls : Cancel(i)

Spec == Init /\ [][Next]_vars

\* The HTTP flow
HttpInit ==
    /\ request \in HttpRequests
    /\ config \in Configs
    /\ propagator \in Propagators
    /\ HttpIdle
    /\ RpcIdle

HttpNext ==
    \/ MakeSpan
    \/ \E st \in StatusCodes : OnResponse(st)

HttpSpec == HttpInit /\ [][HttpNext]_vars

\* make_span over every Host header text
HostInit ==
    /\ request \in HostRequests
    /\ config = DefaultConfig
    /\ propagator = "tracecontext"
    /\ HttpIdle
    /\ RpcIdle

HostNext == MakeSpan

HostSpec == HostInit /\ [][HostNext]_vars

----------------------------------------------------------------------------
(* Properties *)

InFlight == {"created", "polling", "suspended", "resolved"}
Started(i) == calls[i].pc # "idle"
SpanOf(i) == spans[calls[i].span]
OtelStatus(span) == span.fields["otel.status_code"]
HttpStatus(span) == span.fields["http.response.status_code"]

\* C1: in the RPC flow every completed call has written otel.status_code
\* exactly once, on the span it owns: "ok" together with the response status
\* code after Ok, "error" and no status code after Err; a span is written by
\* its own call only, and a span whose call has not completed carries no
\* outcome.
C1_OutcomeOncePerCall ==
    /\ \A k \in 1..Len(spans) :
         /\ spans[k].writers \subseteq {spans[k].owner}
         /\ spans[k].writes["otel.status_code"] <= 1
         /\ calls[spans[k].owner].span = k
         /\ calls[spans[k].owner].pc # "done" =>
              /\ OtelStatus(spans[k]) = Empty
              /\ HttpStatus(spans[k]) = Empty
    /\ \A i \in Calls : calls[i].pc = "done" =>
         /\ SpanOf(i).owner = i
         /\ SpanOf(i).writes["otel.status_code"] = 1
         /\ calls[i].inner.kind = "ok" =>
              /\ OtelStatus(SpanOf(i)) = Str("ok")
              /\ HttpStatus(SpanOf(i)) = DebugNum(calls[i].inner.v)
              /\ SpanOf(i).writes["http.response.status_code"] = 1
         /\ calls[i].inner.kind = "err" =>
              /\ OtelStatus(SpanOf(i)) = Str("error")
              /\ HttpStatus(SpanOf(i)) = Empty
              /\ SpanOf(i).writes["http.response.status_code"] = 0

\* Two calls that overlapped (the later call's span was created first) have
\* completed, one with Ok and one with Err.
C1_Witness ==
    /\ calls[1].pc = "done" /\ calls[1].inner.kind = "ok"
    /\ calls[2].pc = "done" /\ calls[2].inner.kind = "err"
    /\ calls[2].span < calls[1].span

C6_SpanActiveWhilePolled ==
    \A i \in Calls : calls[i].pc = "polling" =>
        /\ calls[i].worker \in Workers
        /\ workers[calls[i].worker].running = i
        /\ calls[i].span \in 1..Len(spans)
        /\ Current(calls[i].worker) = calls[i].span
        /\ SpanOf(i).owner = i

\* Two calls are polled at the same time on two workers, the first call on
\* the second worker, while the other one has been suspended before
\* (its span is older than the first call's).
C6_Witness ==
    /\ calls[1].pc = "polling" /\ calls[1].worker = 2
    /\ calls[2].pc = "polling" /\ calls[2].worker = 1
    /\ calls[2].span < calls[1].span

\* C7: a poll_ready is driven on the stored handle and returns exactly what
\* that handle's poll_ready returned, and changes neither the stored handle,
\* nor any call, span or worker.
C7_PollReadyForwarded ==
    [][lastPoll' # lastPoll =>
         /\ lastPoll'.handle = stored
         /\ lastPoll'.outer = lastPoll'.inner
         /\ handles'[stored].polled = lastPoll'.inner
         /\ UNCHANGED <<stored, calls, spans, workers>>]_vars

\* The downstream handle stored after a call reported Pending while that
\* call was in flight, and Pending is what the middleware returned.
C7_Witness ==
    /\ lastPoll.handle = 2
    /\ lastPoll.inner = "Pending"
    /\ lastPoll.outer = "Pending"
    /\ calls[1].pc \in InFlight

\* C8: every call owns the handle that was stored when call() was entered,
\* the one the host drove poll_ready to Ready on, never the fresh clone; the
\* clone is what the middleware stores afterwards; no two calls own the same
\* handle and the stored handle is owned by no call.
C8_HandlePerCall ==
    /\ \A i \in Calls : Started(i) =>
         /\ calls[i].handle = calls[i].storedBefore
         /\ calls[i].handle # calls[i].clone
         /\ handles[calls[i].handle].polled = "ReadyOk"
         /\ handles[calls[i].clone].from = calls[i].storedBefore
         /\ calls[i].handle # stored
    /\ \A i, j \in Calls :
         Started(i) /\ Started(j) /\ i # j => calls[i].handle # calls[j].handle
    /\ stored = Len(handles)

\* Two calls are in flight at once, each on its own handle, and the
\* middleware stores a third.
C8_Witness ==
    /\ calls[1].pc \in {"polling", "suspended"} /\ calls[1].handle = 1
    /\ calls[2].pc \in {"polling", "suspended"} /\ calls[2].handle = 2
    /\ stored = 3

\* C9: a cancelled call's span, if one was created, is closed with both
\* outcome fields unrecorded; a completed call's span is closed; a span is
\* open only while its call is in flight.
C9_SpanClosedOnCancel ==
    /\ \A i \in Calls :
         /\ calls[i].pc = "dropped" /\ calls[i].span # 0 =>
              /\ Closed(SpanOf(i))
              /\ OtelStatus(SpanOf(i)) = Empty
              /\ HttpStatus(SpanOf(i)) = Empty
         /\ calls[i].pc = "done" => Closed(SpanOf(i))
    /\ \A k \in 1..Len(spans) :
         ~Closed(spans[k]) => calls[spans[k].owner].pc \in {"polling", "suspended", "resolved"}

\* A call was cancelled while suspended, after its span had been created.
C9_Witness ==
    \E i \in Calls :
        /\ calls[i].pc = "dropped"
        /\ calls[i].span # 0
        /\ calls[i].invoked = 1
        /\ Closed(SpanOf(i))

----------------------------------------------------------------------------
(* Properties of the HTTP flow *)

IsNumber(value) == value.ty \in {"u64", "i64", "debug"} /\ value.s = ""

\* The logical classification a recorded otel.status_code value stands for
Classification(value) ==
    CASE value.s \in {"ok", "OK"}       -> "ok"
      [] value.s \in {"error", "ERROR"} -> "error"
      [] OTHER                          -> "unset"

\* C3: after on_response the span's outcome is error exactly for a status in
\* 500..599, and the numeric status code has been written on a field that
\* make_span declared.
C3_StatusOnDeclaredField ==
    httpPc = "responded" =>
        /\ Classification(OtelStatus(httpSpan)) =
              (IF response \in 500..599 THEN "error" ELSE "ok")
        /\ \E f \in DOMAIN httpSpan.fields :
              /\ httpSpan.writes[f] > 0
              /\ IsNumber(httpSpan.fields[f])
              /\ httpSpan.fields[f].n = response

\* C10: for the same response, on_response and the Ok arm of the RPC call
\* leave the same classification in otel.status_code and the same status
\* code in http.response.status_code.
C10_UniformOutcome ==
    httpPc = "responded" =>
        LET rpc == RecordOutcome(CreateServerSpan(request.headers, 0), Ok(response), 0)
        IN  /\ Classification(OtelStatus(rpc)) = Classification(OtelStatus(httpSpan))
            /\ IsNumber(HttpStatus(rpc)) = IsNumber(HttpStatus(httpSpan))
            /\ HttpStatus(rpc).n = HttpStatus(httpSpan).n

HasValidTraceparent ==
    /\ request.headers.traceparent.some
    /\ request.headers.traceparent.v \in {<<"a">>, <<"b">>}

\* C5: with propagate_context disabled the propagator is not consulted and
\* the span has no parent; with it enabled the propagator is consulted once
\* and the span's parent is the context it extracts, which is no parent when
\* the trace header is absent, malformed or not text.
C5_ParentFollowsFlag ==
    httpPc # "start" =>
        /\ ~config.propagate_context =>
              /\ extractCalls = 0
              /\ httpSpan.parent = NoContext
        /\ config.propagate_context =>
              /\ extractCalls = 1
              /\ httpSpan.parent = Extract(propagator, request.headers)
              /\ ~HasValidTraceparent => httpSpan.parent = NoContext
              /\ HasValidTraceparent /\ propagator = "tracecontext" =>
                    httpSpan.parent # NoContext

\* Propagation is disabled, the request carries a valid trace header, and
\* the span was returned without a parent.
C5_Witness ==
    /\ httpPc = "spanned"
    /\ ~config.propagate_context
    /\ propagator = "tracecontext"
    /\ HasValidTraceparent
    /\ httpSpan.parent = NoContext

----------------------------------------------------------------------------
(* Properties of the host derivation *)

HostHeader == request.headers.host
SpanHost   == httpSpan.fields["server.addresss"].t
SpanPort   == httpSpan.fields["server.port"].n

\* Index of the first ':' of a text, Len + 1 when there is none
FirstColon(t) ==
    IF \E i \in 1..Len(t) : t[i] = Colon
    THEN CHOOSE i \in 1..Len(t) : t[i] = Colon /\ \A j \in 1..(i - 1) : t[j] # Colon
    ELSE Len(t) + 1

PreColon(t) == SubSeq(t, 1, FirstColon(t) - 1)
HasPortSegment(t) == FirstColon(t) <= Len(t)

\* The segment after the first ':', up to the next ':' if there is one
PostColon(t) ==
    LET rest == SubSeq(t, FirstColon(t) + 1, Len(t))
    IN  SubSeq(rest, 1, FirstColon(rest) - 1)

\* Decimal value of a text of digits, by positional weights
RECURSIVE Weighted(_, _)
Weighted(d, i) ==
    IF i > Len(d) THEN 0
    ELSE DigitVal[d[i]] * 10 ^ (Len(d) - i) + Weighted(d, i + 1)

Unsigned(t) == IF t # <<>> /\ t[1] = Plus THEN Tail(t) ELSE t

IsPortNumber(t) ==
    /\ Unsigned(t) # <<>>
    /\ \A i \in 1..Len(Unsigned(t)) : Unsigned(t)[i] \in Digits
    /\ Weighted(Unsigned(t), 1) <= U16Max

\* Port a Host header text stands for: its port segment when it is a port
\* number, 80 otherwise
PortOfHeader(t) ==
    IF HasPortSegment(t) /\ IsPortNumber(PostColon(t))
    THEN Weighted(Unsigned(PostColon(t)), 1)
    ELSE 80

IsText(t) == \A i \in 1..Len(t) : t[i] # NonAscii

\* C4 as stated: authority first; else the Host header's segments with port
\* 80 when absent or unparseable, and never port 0; else "unknown" and 0.
C4_AsStated ==
    httpPc = "spanned" =>
        /\ request.uriHost.some =>
              /\ SpanHost = request.uriHost.v
              /\ SpanPort = (IF request.uriPort.some THEN request.uriPort.v ELSE 80)
        /\ ~request.uriHost.some /\ HostHeader.some =>
              /\ SpanHost = PreColon(HostHeader.v)
              /\ SpanPort = PortOfHeader(HostHeader.v)
              /\ SpanPort # 0
        /\ ~request.uriHost.some /\ ~HostHeader.some =>
              /\ SpanHost = Unknown
              /\ SpanPort = 0

\* C4, amended: authority first, with port 80 when the authority has none;
\* else a Host header that is not visible ASCII gives "unknown" and 80, and
\* one that is gives its segment before the first ':' and the port its next
\* segment parses to, 80 when absent or unparseable; else "unknown" and 0.
\* A present Host header gives port 0 only when its port segment parses to 0.
C4_HostPortPriority ==
    httpPc = "spanned" =>
        /\ httpSpan.fields["http.host"] = httpSpan.fields["server.addresss"]
        /\ request.uriHost.some =>
              /\ SpanHost = request.uriHost.v
              /\ SpanPort = (IF request.uriPort.some THEN request.uriPort.v ELSE 80)
        /\ ~request.uriHost.some /\ HostHeader.some /\ ~IsText(HostHeader.v) =>
              /\ SpanHost = Unknown
              /\ SpanPort = 80
        /\ ~request.uriHost.some /\ HostHeader.some /\ IsText(HostHeader.v) =>
              /\ SpanHost = PreColon(HostHeader.v)
              /\ SpanPort = PortOfHeader(HostHeader.v)
              /\ SpanPort = 0 =>
                    /\ HasPortSegment(HostHeader.v)
                    /\ IsPortNumber(PostColon(HostHeader.v))
        /\ ~request.uriHost.some /\ ~HostHeader.some =>
              /\ SpanHost = Unknown
              /\ SpanPort = 0

\* A present Host header, "h:0", gave port 0.
C4_Witness ==
    /\ httpPc = "spanned"
    /\ ~request.uriHost.some
    /\ HostHeader = Some(<<"h", ":", "0">>)
    /\ SpanHost = <<"h">>
    /\ SpanPort = 0

====
